---- MODULE Spec2Model ----
(***************************************************************************)
(* A model of the assistant bot of main.py: the validated fields (Name,    *)
(* Phone, Birthday), the Record and its mutators, the AddressBook with its *)
(* upcoming-birthday query, the command handlers wrapped by input_error,   *)
(* and the interactive loop of main().                                     *)
(*                                                                         *)
(* A Python str is a sequence of TLA+ strings.  Text whose characters      *)
(* matter (phone numbers, dates, command verbs, input lines) is written    *)
(* one character per element; a name or a fixed message is one element.    *)
(* A code point outside ASCII is written by its name, "U+0661".            *)
(***************************************************************************)
EXTENDS Integers, Sequences, FiniteSets, TLC

VARIABLES book, today, pc, call, result

vars == <<book, today, pc, call, result>>

(***************************************************************************)
(* Bounds of the model.                                                    *)
(***************************************************************************)
\* The longest phone list a record is let to grow to by calls of its methods
\* and of the handlers outside the loop.
MaxPhones == 3

\* The longest phone list a record is let to grow to by the lines of the loop.
MaxLoopPhones == 2

(***************************************************************************)
(* Characters and strings.                                                 *)
(***************************************************************************)
AsciiDigits == {"0", "1", "2", "3", "4", "5", "6", "7", "8", "9"}

\* Decimal digits outside ASCII (Unicode category Nd) of the model's alphabet:
\* ARABIC-INDIC DIGIT ONE.
OtherDecimalDigits == {"U+0661"}

\* What \d matches in a str pattern compiled without re.ASCII.
IsDecimalDigit(c) == c \in AsciiDigits \cup OtherDecimalDigits

DigitValue(c) ==
    CASE c = "0" -> 0 [] c = "1" -> 1 [] c = "2" -> 2 [] c = "3" -> 3
      [] c = "4" -> 4 [] c = "5" -> 5 [] c = "6" -> 6 [] c = "7" -> 7
      [] c = "8" -> 8 [] c = "9" -> 9

DigitChar(n) ==
    CASE n = 0 -> "0" [] n = 1 -> "1" [] n = 2 -> "2" [] n = 3 -> "3"
      [] n = 4 -> "4" [] n = 5 -> "5" [] n = 6 -> "6" [] n = 7 -> "7"
      [] n = 8 -> "8" [] n = 9 -> "9"

Whitespace == {" ", "\t"}

\* str.lower() on one character, for the letters of the model's alphabet.
LowerChar(c) ==
    CASE c = "A" -> "a" [] c = "C" -> "c" [] c = "D" -> "d" [] c = "E" -> "e"
      [] c = "I" -> "i" [] c = "L" -> "l" [] c = "O" -> "o" [] c = "S" -> "s"
      [] c = "T" -> "t" [] c = "X" -> "x"
      [] OTHER -> c

Lower(s) == [i \in 1..Len(s) |-> LowerChar(s[i])]

\* str.split(): the maximal runs of non-whitespace characters, in order.
RECURSIVE SplitWs(_, _, _)
SplitWs(s, i, cur) ==
    IF i > Len(s)
    THEN IF cur = <<>> THEN <<>> ELSE <<cur>>
    ELSE IF s[i] \in Whitespace
         THEN (IF cur = <<>> THEN <<>> ELSE <<cur>>) \o SplitWs(s, i + 1, <<>>)
         ELSE SplitWs(s, i + 1, Append(cur, s[i]))

\* The fields of s between the occurrences of the character sep.
RECURSIVE SplitOn(_, _, _, _)
SplitOn(s, sep, i, cur) ==
    IF i > Len(s)
    THEN <<cur>>
    ELSE IF s[i] = sep
         THEN <<cur>> \o SplitOn(s, sep, i + 1, <<>>)
         ELSE SplitOn(s, sep, i + 1, Append(cur, s[i]))

\* int() of a string of ASCII digits.
RECURSIVE ToInt(_)
ToInt(s) ==
    IF s = <<>> THEN 0
    ELSE 10 * ToInt(SubSeq(s, 1, Len(s) - 1)) + DigitValue(s[Len(s)])

\* "; ".join(parts)
RECURSIVE JoinWith(_, _)
JoinWith(parts, sep) ==
    IF parts = <<>> THEN <<>>
    ELSE IF Len(parts) = 1 THEN parts[1]
    ELSE parts[1] \o sep \o JoinWith(Tail(parts), sep)

(***************************************************************************)
(* What a call does: it returns a value or raises an exception.            *)
(* value is the str returned or the exception's message; entries is the    *)
(* list get_upcoming_birthdays returns.                                    *)
(***************************************************************************)
Return(v) == [kind |-> "return", exc |-> "", value |-> v, entries |-> <<>>]

ReturnList(l) == [kind |-> "return", exc |-> "", value |-> <<>>, entries |-> l]

Raise(e, m) == [kind |-> "raise", exc |-> e, value |-> m, entries |-> <<>>]

\* The classes `except Exception` catches, among those the model raises.
ExceptionClasses == {"ValueError", "KeyError", "IndexError", "TypeError"}

(***************************************************************************)
(* datetime.date: the proleptic Gregorian calendar.                        *)
(***************************************************************************)
\* Record.birthday = None
None == [year |-> 0, month |-> 0, day |-> 0]

Date(y, m, d) == [year |-> y, month |-> m, day |-> d]

IsLeap(y) == (y % 4 = 0 /\ y % 100 # 0) \/ y % 400 = 0

DaysInMonth(y, m) ==
    IF m = 2 THEN (IF IsLeap(y) THEN 29 ELSE 28)
    ELSE IF m \in {4, 6, 9, 11} THEN 30 ELSE 31

IsValidDate(y, m, d) ==
    /\ y \in 1..9999
    /\ m \in 1..12
    /\ d \in 1..DaysInMonth(y, m)

DaysBeforeYear(y) ==
    (y - 1) * 365 + (y - 1) \div 4 - (y - 1) \div 100 + (y - 1) \div 400

RECURSIVE DaysBeforeMonth(_, _)
DaysBeforeMonth(y, m) ==
    IF m = 1 THEN 0 ELSE DaysBeforeMonth(y, m - 1) + DaysInMonth(y, m - 1)

\* date.toordinal()
ToOrdinal(d) == DaysBeforeYear(d.year) + DaysBeforeMonth(d.year, d.month) + d.day

\* date.weekday(): Monday is 0, Sunday is 6.
Weekday(d) == (ToOrdinal(d) + 6) % 7

\* date < date, date <= date
DateLt(a, b) == ToOrdinal(a) < ToOrdinal(b)

DateLe(a, b) == ToOrdinal(a) <= ToOrdinal(b)

NextDay(d) ==
    IF d.day < DaysInMonth(d.year, d.month) THEN Date(d.year, d.month, d.day + 1)
    ELSE IF d.month < 12 THEN Date(d.year, d.month + 1, 1)
    ELSE Date(d.year + 1, 1, 1)

\* date + timedelta(days=k), k >= 0
RECURSIVE AddDays(_, _)
AddDays(d, k) == IF k = 0 THEN d ELSE AddDays(NextDay(d), k - 1)

\* date.replace(year=y): raises ValueError when the day does not exist in y.
ReplaceYear(d, y) ==
    IF IsValidDate(y, d.month, d.day)
    THEN [kind |-> "return", date |-> Date(y, d.month, d.day)]
    ELSE [kind |-> "raise", date |-> None]

\* n written with at least w digits, zero padded.
RECURSIVE Pad(_, _)
Pad(n, w) ==
    IF w = 0 THEN <<>> ELSE Append(Pad(n \div 10, w - 1), DigitChar(n % 10))

\* date.strftime("%d.%m.%Y"), for a year of four digits.
Strftime(d) == Pad(d.day, 2) \o <<".">> \o Pad(d.month, 2) \o <<".">> \o Pad(d.year, 4)

IsAsciiNumber(s) == \A i \in 1..Len(s) : s[i] \in AsciiDigits

\* The %d directive: 3[0-1] | [1-2]\d | 0[1-9] | [1-9] | " "[1-9]
MatchesDay(s) ==
    \/ Len(s) \in 1..2 /\ IsAsciiNumber(s) /\ ToInt(s) \in 1..31
    \/ Len(s) = 2 /\ s[1] = " " /\ s[2] \in AsciiDigits \ {"0"}

\* The %m directive: 1[0-2] | 0[1-9] | [1-9]
MatchesMonth(s) == Len(s) \in 1..2 /\ IsAsciiNumber(s) /\ ToInt(s) \in 1..12

\* The %Y directive: \d\d\d\d
MatchesYear(s) == Len(s) = 4 /\ IsAsciiNumber(s)

\* datetime.strptime(value, "%d.%m.%Y").date(): the date, or a ValueError.
Strptime(s) ==
    LET f == SplitOn(s, ".", 1, <<>>)
    IN IF /\ Len(f) = 3
          /\ MatchesDay(f[1])
          /\ MatchesMonth(f[2])
          /\ MatchesYear(f[3])
       THEN LET d == IF f[1][1] = " " THEN DigitValue(f[1][2]) ELSE ToInt(f[1])
                m == ToInt(f[2])
                y == ToInt(f[3])
            IN IF IsValidDate(y, m, d)
               THEN [kind |-> "return", date |-> Date(y, m, d)]
               ELSE [kind |-> "raise", date |-> None]
       ELSE [kind |-> "raise", date |-> None]

(***************************************************************************)
(* The validated fields.                                                   *)
(***************************************************************************)
\* Name.__init__
Name(value) ==
    IF value = <<>>
    THEN Raise("ValueError", <<"Name cannot be empty">>)
    ELSE Return(value)

\* re.fullmatch(r"\d{10}", value)
FullmatchTenDigits(value) ==
    /\ Len(value) = 10
    /\ \A i \in 1..Len(value) : IsDecimalDigit(value[i])

\* Phone.__init__
Phone(value) ==
    IF ~FullmatchTenDigits(value)
    THEN Raise("ValueError", <<"Phone number must be 10 digits">>)
    ELSE Return(value)

\* Birthday.is_future_date
is_future_date(date, now) == DateLt(now, date)

\* Birthday.__init__: the parsed date, or a ValueError.
Birthday(value, now) ==
    LET parsed == Strptime(value)
    IN IF parsed.kind = "raise"
       THEN [out |-> Raise("ValueError", <<"Invalid date format. Use DD.MM.YYYY">>),
             date |-> None]
       ELSE IF is_future_date(parsed.date, now)
       THEN [out |-> Raise("ValueError", <<"Birthday cannot be in the future">>),
             date |-> None]
       ELSE [out |-> Return(<<>>), date |-> parsed.date]

(***************************************************************************)
(* Record: a name, the ordered list of its phones, a birthday or None.     *)
(* A mutator yields the record as the call leaves it and the call's        *)
(* outcome; a call that raises leaves what it had assigned before.         *)
(***************************************************************************)
ReturnNone == Return(<<>>)

InSeq(x, s) == \E i \in 1..Len(s) : s[i] = x

\* Record.__init__
NewRecord(name) ==
    LET n == Name(name)
    IN IF n.kind = "raise"
       THEN [rec |-> [name |-> <<>>, phones |-> <<>>, birthday |-> None], out |-> n]
       ELSE [rec |-> [name |-> n.value, phones |-> <<>>, birthday |-> None],
             out |-> ReturnNone]

\* add_phone putting the new phone first in the list instead of last.
add_phone_prepend(rec, phone_number) ==
    IF InSeq(phone_number, rec.phones)
    THEN [rec |-> rec, out |-> Raise("ValueError", <<"This phone number is already added.">>)]
    ELSE LET p == Phone(phone_number)
         IN IF p.kind = "raise"
            THEN [rec |-> rec, out |-> p]
            ELSE [rec |-> [rec EXCEPT !.phones = <<p.value>> \o @], out |-> ReturnNone]

\* Record.add_phone
add_phone(rec, phone_number) ==
    IF InSeq(phone_number, rec.phones)
    THEN [rec |-> rec, out |-> Raise("ValueError", <<"This phone number is already added.">>)]
    ELSE LET p == Phone(phone_number)
         IN IF p.kind = "raise"
            THEN [rec |-> rec, out |-> p]
            ELSE [rec |-> [rec EXCEPT !.phones = Append(@, p.value)], out |-> ReturnNone]

\* Record.remove_phone
remove_phone(rec, phone_number) ==
    IF ~InSeq(phone_number, rec.phones)
    THEN [rec |-> rec, out |-> Raise("ValueError", <<"Phone number not found.">>)]
    ELSE [rec |-> [rec EXCEPT !.phones = SelectSeq(@, LAMBDA v : v # phone_number)],
          out |-> ReturnNone]

\* The first phone of the loop of edit_phone whose value is old_phone; 0 if none.
FirstIndex(phones, old_phone) ==
    IF InSeq(old_phone, phones)
    THEN CHOOSE i \in 1..Len(phones) :
            /\ phones[i] = old_phone
            /\ \A j \in 1..(i - 1) : phones[j] # old_phone
    ELSE 0

\* edit_phone assigning the new value before it validates it.
edit_phone_assign_first(rec, old_phone, new_phone) ==
    LET i == FirstIndex(rec.phones, old_phone)
    IN IF i = 0
       THEN [rec |-> rec, out |-> Raise("ValueError", <<"Phone number not found">>)]
       ELSE [rec |-> [rec EXCEPT !.phones[i] = new_phone],
             out |-> IF Phone(new_phone).kind = "raise" THEN Phone(new_phone)
                     ELSE Return(<<"Phone number updated.">>)]

\* Record.edit_phone
edit_phone(rec, old_phone, new_phone) ==
    LET i == FirstIndex(rec.phones, old_phone)
    IN IF i = 0
       THEN [rec |-> rec, out |-> Raise("ValueError", <<"Phone number not found">>)]
       ELSE LET p == Phone(new_phone)
            IN IF p.kind = "raise"
               THEN [rec |-> rec, out |-> p]
               ELSE [rec |-> [rec EXCEPT !.phones[i] = p.value],
                     out |-> Return(<<"Phone number updated.">>)]

\* Record.find_phone: the phone's value, or <<>> for None.
find_phone(rec, phone_number) ==
    IF InSeq(phone_number, rec.phones) THEN phone_number ELSE <<>>

\* Record.get_phones
get_phones(rec) ==
    IF rec.phones # <<>> THEN JoinWith(rec.phones, <<"; ">>) ELSE <<"No phone numbers">>

\* add_birthday without the test for a birthday already set.
Record_add_birthday_overwrite(rec, birthday, now) ==
    LET b == Birthday(birthday, now)
    IN IF b.out.kind = "raise"
       THEN [rec |-> rec, out |-> b.out]
       ELSE [rec |-> [rec EXCEPT !.birthday = b.date], out |-> ReturnNone]

\* Record.add_birthday
Record_add_birthday(rec, birthday, now) ==
    IF rec.birthday # None
    THEN [rec |-> rec,
          out |-> Raise("ValueError", <<"Birthday is already set and cannot be changed.">>)]
    ELSE LET b == Birthday(birthday, now)
         IN IF b.out.kind = "raise"
            THEN [rec |-> rec, out |-> b.out]
            ELSE [rec |-> [rec EXCEPT !.birthday = b.date], out |-> ReturnNone]

\* Record.show_birthday
Record_show_birthday(rec) ==
    IF rec.birthday # None THEN Strftime(rec.birthday) ELSE <<"Birthday not set">>

(***************************************************************************)
(* AddressBook: a dict from a name to its record, in insertion order.      *)
(***************************************************************************)
\* AddressBook.find: the place of the record of that name, 0 for None.
Find(b, name) ==
    IF \E i \in 1..Len(b) : b[i].name = name
    THEN CHOOSE i \in 1..Len(b) : b[i].name = name
    ELSE 0

\* AddressBook.add_record: a key already present keeps its place.
add_record(b, rec) ==
    IF Find(b, rec.name) # 0
    THEN [b EXCEPT ![Find(b, rec.name)] = rec]
    ELSE Append(b, rec)

\* AddressBook.delete
delete(b, name) == SelectSeq(b, LAMBDA r : r.name # name)

\* days_to_monday counted from 6 instead of 7.
congratulation_date_off_by_one(birthday_this_year) ==
    IF Weekday(birthday_this_year) \in {5, 6}
    THEN AddDays(birthday_this_year, 6 - Weekday(birthday_this_year))
    ELSE birthday_this_year

\* The date to congratulate on, for a birthday falling on birthday_this_year.
congratulation_date(birthday_this_year) ==
    IF Weekday(birthday_this_year) \in {5, 6}
    THEN AddDays(birthday_this_year, 7 - Weekday(birthday_this_year))
    ELSE birthday_this_year

\* The test of line 130.
InNextWeek(birthday_this_year, now) ==
    /\ DateLe(now, birthday_this_year)
    /\ DateLe(birthday_this_year, AddDays(now, 7))

\* The loop of get_upcoming_birthdays from record i on, acc the entries so far.
RECURSIVE UpcomingFrom(_, _, _, _)
UpcomingFrom(b, i, now, acc) ==
    IF i > Len(b) THEN ReturnList(acc)
    ELSE IF b[i].birthday = None THEN UpcomingFrom(b, i + 1, now, acc)
    ELSE LET this_year == ReplaceYear(b[i].birthday, now.year)
             rolled == IF this_year.kind = "return" /\ DateLt(this_year.date, now)
                       THEN ReplaceYear(this_year.date, now.year + 1)
                       ELSE this_year
         IN IF rolled.kind = "raise"
            THEN Raise("ValueError", <<"day is out of range for month">>)
            ELSE IF InNextWeek(rolled.date, now)
            THEN UpcomingFrom(b, i + 1, now,
                     Append(acc, [name |-> b[i].name,
                                  congratulation_date |->
                                      Strftime(congratulation_date(rolled.date))]))
            ELSE UpcomingFrom(b, i + 1, now, acc)

\* AddressBook.get_upcoming_birthdays
get_upcoming_birthdays(b, now) == UpcomingFrom(b, 1, now, <<>>)

\* One line of list_all_contacts, without the line breaks between them.
RECURSIVE ContactLines(_)
ContactLines(b) ==
    IF b = <<>> THEN <<>>
    ELSE b[1].name \o <<": ">> \o get_phones(b[1])
         \o (IF Len(b) > 1 THEN <<"\n">> ELSE <<>>) \o ContactLines(Tail(b))

\* AddressBook.list_all_contacts
list_all_contacts(b) ==
    IF b = <<>> THEN <<"No contacts in the address book.">> ELSE ContactLines(b)

(***************************************************************************)
(* The command handlers.  X_func is the function as written, X the name    *)
(* the decorator binds: input_error applied to it.  Each yields the book   *)
(* as the call leaves it and the call's outcome.                           *)
(***************************************************************************)
\* A handler left undecorated: what it raises reaches main().
input_error_absent(r) == r

\* input_error.inner
input_error(r) ==
    [book |-> r.book,
     out |-> IF r.out.kind = "return" THEN r.out
             ELSE IF r.out.exc = "KeyError" THEN Return(<<"Contact not found.">>)
             ELSE IF r.out.exc = "ValueError" THEN Return(<<"Error: ">> \o r.out.value)
             ELSE IF r.out.exc = "IndexError"
                  THEN Return(<<"Error: Missing required arguments.">>)
             ELSE IF r.out.exc \in ExceptionClasses
                  THEN Return(<<"Unexpected error: ">> \o r.out.value)
             ELSE r.out]

add_contact_func(args, b) ==
    IF Len(args) < 2
    THEN [book |-> b, out |-> Raise("ValueError", <<"Give me name and phone please.">>)]
    ELSE LET name == args[1]
             phone == args[2]
             found == Find(b, name)
             created == NewRecord(name)
         IN IF found = 0 /\ created.out.kind = "raise"
            THEN [book |-> b, out |-> created.out]
            ELSE LET b1 == IF found = 0 THEN add_record(b, created.rec) ELSE b
                     message == IF found = 0 THEN <<"Contact added.">>
                                ELSE <<"Contact updated.">>
                     i == Find(b1, name)
                     r == add_phone(b1[i], phone)
                 IN IF phone # <<>>
                    THEN [book |-> [b1 EXCEPT ![i] = r.rec],
                          out |-> IF r.out.kind = "raise" THEN r.out ELSE Return(message)]
                    ELSE [book |-> b1, out |-> Return(message)]

add_contact(args, b) == input_error(add_contact_func(args, b))

change_contact_func(args, b) ==
    IF Len(args) < 3
    THEN [book |-> b,
          out |-> Raise("ValueError", <<"Name, old phone, and new phone are required.">>)]
    ELSE IF Len(args) # 3
    THEN [book |-> b,
          out |-> Raise("ValueError", <<"too many values to unpack (expected 3)">>)]
    ELSE LET i == Find(b, args[1])
             r == edit_phone(b[i], args[2], args[3])
         IN IF i = 0
            THEN [book |-> b, out |-> Return(<<"Contact not found.">>)]
            ELSE [book |-> [b EXCEPT ![i] = r.rec], out |-> r.out]

change_contact(args, b) == input_error(change_contact_func(args, b))

show_phone_func(args, b) ==
    IF args = <<>>
    THEN [book |-> b, out |-> Raise("ValueError", <<"Name is required.">>)]
    ELSE LET i == Find(b, args[1])
         IN IF i = 0
            THEN [book |-> b, out |-> Return(<<"Contact not found.">>)]
            ELSE [book |-> b,
                  out |-> Return(args[1] \o <<"'s phone numbers: ">> \o get_phones(b[i]))]

show_phone(args, b) == input_error(show_phone_func(args, b))

show_all_contacts_func(args, b) == [book |-> b, out |-> Return(list_all_contacts(b))]

show_all_contacts(args, b) == input_error(show_all_contacts_func(args, b))

add_birthday_func(args, b, now) ==
    IF Len(args) < 2
    THEN [book |-> b, out |-> Raise("ValueError", <<"Name and birthday are required.">>)]
    ELSE IF Len(args) # 2
    THEN [book |-> b,
          out |-> Raise("ValueError", <<"too many values to unpack (expected 2)">>)]
    ELSE LET i == Find(b, args[1])
             r == Record_add_birthday(b[i], args[2], now)
         IN IF i = 0
            THEN [book |-> b, out |-> Return(<<"Contact not found.">>)]
            ELSE [book |-> [b EXCEPT ![i] = r.rec],
                  out |-> IF r.out.kind = "raise" THEN r.out
                          ELSE Return(<<"Birthday added.">>)]

add_birthday(args, b, now) == input_error(add_birthday_func(args, b, now))

show_birthday_func(args, b) ==
    IF args = <<>>
    THEN [book |-> b, out |-> Raise("ValueError", <<"Name is required.">>)]
    ELSE LET i == Find(b, args[1])
         IN IF i = 0
            THEN [book |-> b, out |-> Return(<<"Contact not found.">>)]
            ELSE [book |-> b,
                  out |-> Return(args[1] \o <<"'s birthday: ">>
                                 \o Record_show_birthday(b[i]))]

show_birthday(args, b) == input_error(show_birthday_func(args, b))

birthdays_func(args, b, now) == [book |-> b, out |-> get_upcoming_birthdays(b, now)]

birthdays(args, b, now) == input_error(birthdays_func(args, b, now))

\* parse_input
parse_input(user_input) ==
    IF \A i \in 1..Len(user_input) : user_input[i] \in Whitespace
    THEN [cmd |-> <<>>, args |-> <<>>]
    ELSE LET tokens == SplitWs(user_input, 1, <<>>)
         IN [cmd |-> Lower(tokens[1]), args |-> Tail(tokens)]

(***************************************************************************)
(* The literals main() compares the command with.                          *)
(***************************************************************************)
kw_add == <<"a", "d", "d">>

kw_change == <<"c", "h", "a", "n", "g", "e">>

kw_phone == <<"p", "h", "o", "n", "e">>

kw_all == <<"a", "l", "l">>

kw_add_birthday == <<"a", "d", "d", "-", "b", "i", "r", "t", "h", "d", "a", "y">>

kw_show_birthday == <<"s", "h", "o", "w", "-", "b", "i", "r", "t", "h", "d", "a", "y">>

kw_birthdays == <<"b", "i", "r", "t", "h", "d", "a", "y", "s">>

kw_hello == <<"h", "e", "l", "l", "o">>

kw_close == <<"c", "l", "o", "s", "e">>

kw_exit == <<"e", "x", "i", "t">>

(***************************************************************************)
(* Inputs.                                                                 *)
(***************************************************************************)
Alice == <<"Alice">>

Bob == <<"Bob">>

Names == {Alice, Bob}

Repeat(c, n) == [i \in 1..n |-> c]

PhoneA == Repeat("1", 10)

PhoneB == Repeat("2", 10)

\* Ten ARABIC-INDIC DIGIT ONE.
PhoneArabic == Repeat("U+0661", 10)

PhoneShort == <<"1", "2", "3">>

PhoneLong == Repeat("1", 11)

\* Ten characters, two of them separators.
PhoneDashed == <<"1", "1", "1", "-", "1", "1", "1", "-", "1", "1">>

PhoneInputs == {PhoneA, PhoneB, PhoneArabic, PhoneShort, PhoneLong, PhoneDashed, <<>>}

D_15_06_1990 == <<"1", "5", ".", "0", "6", ".", "1", "9", "9", "0">>

D_16_06_1991 == <<"1", "6", ".", "0", "6", ".", "1", "9", "9", "1">>

D_17_06_1992 == <<"1", "7", ".", "0", "6", ".", "1", "9", "9", "2">>

D_18_06_1993 == <<"1", "8", ".", "0", "6", ".", "1", "9", "9", "3">>

D_29_02_2000 == <<"2", "9", ".", "0", "2", ".", "2", "0", "0", "0">>

D_01_01_1995 == <<"0", "1", ".", "0", "1", ".", "1", "9", "9", "5">>

D_01_03_1996 == <<"0", "1", ".", "0", "3", ".", "1", "9", "9", "6">>

D_10_06_2024 == <<"1", "0", ".", "0", "6", ".", "2", "0", "2", "4">>

D_11_06_2024 == <<"1", "1", ".", "0", "6", ".", "2", "0", "2", "4">>

D_31_02_2000 == <<"3", "1", ".", "0", "2", ".", "2", "0", "0", "0">>

D_5_6_1990 == <<"5", ".", "6", ".", "1", "9", "9", "0">>

D_15m06m1990 == <<"1", "5", "-", "0", "6", "-", "1", "9", "9", "0">>

D_15_06_90 == <<"1", "5", ".", "0", "6", ".", "9", "0">>

\* The day the main loop and the record calls run on: Monday 2024-06-10.
LoopDay == Date(2024, 6, 10)

DateInputs == {D_15_06_1990, D_29_02_2000, D_10_06_2024, D_11_06_2024, D_31_02_2000,
               D_5_6_1990, D_15m06m1990, D_15_06_90}

Extra == <<"x">>

NoCall == [op |-> "", idx |-> 0, args |-> <<>>]

(***************************************************************************)
(* Calls of the Record's methods on record i of the book.                  *)
(***************************************************************************)
RecordCall(i, r, op, args) ==
    /\ Len(r.rec.phones) <= MaxPhones
    /\ book' = [book EXCEPT ![i] = r.rec]
    /\ result' = r.out
    /\ call' = [op |-> op, idx |-> i, args |-> args]
    /\ UNCHANGED <<today, pc>>

CallAddPhone ==
    \E i \in DOMAIN book, p \in PhoneInputs :
        RecordCall(i, add_phone(book[i], p), "add_phone", <<p>>)

CallRemovePhone ==
    \E i \in DOMAIN book, p \in PhoneInputs :
        RecordCall(i, remove_phone(book[i], p), "remove_phone", <<p>>)

CallEditPhone ==
    \E i \in DOMAIN book, old \in PhoneInputs, new \in PhoneInputs :
        RecordCall(i, edit_phone(book[i], old, new), "edit_phone", <<old, new>>)

CallAddBirthday ==
    \E i \in DOMAIN book, d \in DateInputs :
        RecordCall(i, Record_add_birthday(book[i], d, today), "add_birthday", <<d>>)

(***************************************************************************)
(* Calls of the handlers on the book, outside the loop.                    *)
(***************************************************************************)
HandlerCall(r, op, args) ==
    /\ \A i \in DOMAIN r.book : Len(r.book[i].phones) <= MaxPhones
    /\ book' = r.book
    /\ result' = r.out
    /\ call' = [op |-> op, idx |-> 0, args |-> args]
    /\ UNCHANGED <<today, pc>>

HandlerAddArgs == {<<Alice>>} \cup {<<Alice, p>> : p \in PhoneInputs}

HandlerChangeArgs ==
    {<<Alice, old, new>> : old \in {PhoneA, PhoneB}, new \in {PhoneA, PhoneB, PhoneShort}}
    \cup {<<Alice, PhoneA>>, <<Alice, PhoneA, PhoneB, Extra>>}

HandlerBirthdayArgs ==
    {<<Alice>>, <<Alice, D_15_06_1990, Extra>>} \cup {<<Alice, d>> : d \in DateInputs}

CallAddContact ==
    \E args \in HandlerAddArgs : HandlerCall(add_contact(args, book), "add", args)

CallChangeContact ==
    \E args \in HandlerChangeArgs : HandlerCall(change_contact(args, book), "change", args)

CallAddBirthdayHandler ==
    \E args \in HandlerBirthdayArgs :
        HandlerCall(add_birthday(args, book, today), "add-birthday", args)

InitRecord ==
    /\ book = <<NewRecord(Alice).rec>>
    /\ today = LoopDay
    /\ pc = "prompt"
    /\ call = NoCall
    /\ result = ReturnNone

NextRecord ==
    \/ CallAddPhone
    \/ CallRemovePhone
    \/ CallEditPhone
    \/ CallAddBirthday
    \/ CallAddContact
    \/ CallChangeContact
    \/ CallAddBirthdayHandler

SpecRecord == InitRecord /\ [][NextRecord]_vars

(***************************************************************************)
(* The lines typed at the prompt of main().                                *)
(***************************************************************************)
ToLine(tokens) == JoinWith(tokens, <<" ">>)

LinesOf(verb, argLists) == {ToLine(<<verb>> \o a) : a \in argLists}

MainAddArgs ==
    {<<>>, <<Alice>>, <<Alice, PhoneA, Extra>>}
    \cup {<<n, p>> : n \in Names, p \in {PhoneA, PhoneB, PhoneShort}}

MainChangeArgs ==
    {<<>>, <<Alice, PhoneA>>}
    \cup {<<Alice, old, new>> : old \in {PhoneA, PhoneB},
                                new \in {PhoneA, PhoneB, PhoneShort}}
    \cup {<<Bob, PhoneA, PhoneB>>}
    \cup {<<n, PhoneA, PhoneB, Extra>> : n \in Names}

MainNameArgs == {<<>>} \cup {<<n>> : n \in Names}

MainBirthdayArgs ==
    {<<>>, <<Alice>>, <<Alice, D_15_06_1990, Extra>>, <<Bob, D_15_06_1990>>}
    \cup {<<Alice, d>> : d \in {D_15_06_1990, D_29_02_2000, D_11_06_2024, D_31_02_2000}}

\* The verbs that end the loop, as typed: in lower, upper and mixed case.
QuitVerbs == {kw_close, kw_exit, <<"E", "X", "I", "T">>, <<"C", "l", "o", "s", "e">>}

QuitLines == LinesOf(kw_close, {<<>>}) \cup {ToLine(<<v>> \o a) : v \in QuitVerbs \ {kw_close},
                                                                  a \in {<<>>, <<Alice>>}}

OtherLines ==
    {<<>>, <<" ">>, <<" ", "\t">> \o kw_hello \o <<" ">>,
     ToLine(<<kw_hello>>), ToLine(<<kw_all>>), ToLine(<<kw_birthdays>>),
     ToLine(<<<<"d", "e", "l">>, Alice>>),
     ToLine(<<<<"A", "D", "D">>, Bob, PhoneB>>)}

Lines ==
    LinesOf(kw_add, MainAddArgs)
    \cup LinesOf(kw_change, MainChangeArgs)
    \cup LinesOf(kw_phone, MainNameArgs)
    \cup LinesOf(kw_add_birthday, MainBirthdayArgs)
    \cup LinesOf(kw_show_birthday, MainNameArgs)
    \cup QuitLines
    \cup OtherLines

\* parse_input on each line.
Parsed == [l \in Lines |-> parse_input(l)]

(***************************************************************************)
(* main(): one action for each branch of the loop's if/elif chain.         *)
(***************************************************************************)
\* The branch prints text and the loop goes on, or breaks.
Branch(l, text, next) ==
    /\ pc = "prompt"
    /\ pc' = next
    /\ result' = Return(text)
    /\ call' = [op |-> "main", idx |-> 0, args |-> <<l>>]
    /\ UNCHANGED <<book, today>>

\* The branch prints what a handler returns; a handler that raises ends main().
Dispatch(l, r) ==
    /\ pc = "prompt"
    /\ \A i \in DOMAIN r.book : Len(r.book[i].phones) <= MaxLoopPhones
    /\ pc' = IF r.out.kind = "raise" THEN "crashed" ELSE "prompt"
    /\ book' = r.book
    /\ result' = r.out
    /\ call' = [op |-> "main", idx |-> 0, args |-> <<l>>]
    /\ UNCHANGED today

MainClose ==
    \E l \in Lines :
        /\ Parsed[l].cmd \in {kw_close, kw_exit}
        /\ Branch(l, <<"Good bye!">>, "done")

MainHello ==
    \E l \in Lines :
        /\ Parsed[l].cmd = kw_hello
        /\ Branch(l, <<"How can I help you?">>, "prompt")

MainAdd ==
    \E l \in Lines :
        /\ Parsed[l].cmd = kw_add
        /\ Dispatch(l, add_contact(Parsed[l].args, book))

MainChange ==
    \E l \in Lines :
        /\ Parsed[l].cmd = kw_change
        /\ Dispatch(l, change_contact(Parsed[l].args, book))

MainPhone ==
    \E l \in Lines :
        /\ Parsed[l].cmd = kw_phone
        /\ Dispatch(l, show_phone(Parsed[l].args, book))

MainAll ==
    \E l \in Lines :
        /\ Parsed[l].cmd = kw_all
        /\ Dispatch(l, show_all_contacts(Parsed[l].args, book))

MainAddBirthday ==
    \E l \in Lines :
        /\ Parsed[l].cmd = kw_add_birthday
        /\ Dispatch(l, add_birthday(Parsed[l].args, book, today))

MainShowBirthday ==
    \E l \in Lines :
        /\ Parsed[l].cmd = kw_show_birthday
        /\ Dispatch(l, show_birthday(Parsed[l].args, book))

MainBirthdays ==
    \E l \in Lines :
        /\ Parsed[l].cmd = kw_birthdays
        /\ Dispatch(l, birthdays(Parsed[l].args, book, today))

MainInvalid ==
    \E l \in Lines :
        /\ Parsed[l].cmd \notin {kw_close, kw_exit, kw_hello, kw_add, kw_change, kw_phone,
                                 kw_all, kw_add_birthday, kw_show_birthday, kw_birthdays}
        /\ Branch(l, <<"Invalid command.">>, "prompt")

InitMain ==
    /\ book = <<>>
    /\ today = LoopDay
    /\ pc = "prompt"
    /\ call = NoCall
    /\ result = ReturnNone

NextMain ==
    \/ MainClose
    \/ MainHello
    \/ MainAdd
    \/ MainChange
    \/ MainPhone
    \/ MainAll
    \/ MainAddBirthday
    \/ MainShowBirthday
    \/ MainBirthdays
    \/ MainInvalid

SpecMain == InitMain /\ [][NextMain]_vars

(***************************************************************************)
(* get_upcoming_birthdays on any book, on any day.                         *)
(***************************************************************************)
\* The birthdays add_birthday stored, each before every day of TodayDates.
StoredBirthdays ==
    {Strptime(d).date : d \in {D_15_06_1990, D_16_06_1991, D_17_06_1992, D_18_06_1993,
                               D_29_02_2000, D_01_01_1995, D_01_03_1996}}

RecordsOf(n) ==
    {[name |-> n, phones |-> <<PhoneA>>, birthday |-> d] : d \in StoredBirthdays \cup {None}}

BirthdayBooks ==
    {<<>>}
    \cup {<<r>> : r \in RecordsOf(Alice) \cup RecordsOf(Bob)}
    \cup {<<r1, r2>> : r1 \in RecordsOf(Alice), r2 \in RecordsOf(Bob)}
    \cup {<<r2, r1>> : r1 \in RecordsOf(Alice), r2 \in RecordsOf(Bob)}

\* datetime.today().date(): the days of four months of a common and of a leap year.
TodayDates ==
    {Date(y, m, d) : y \in {2023, 2024}, m \in {2, 3, 6, 12}, d \in 1..31}
    \cap {dt \in [year : {2023, 2024}, month : 1..12, day : 1..31] :
             IsValidDate(dt.year, dt.month, dt.day)}

CallGetUpcomingBirthdays ==
    /\ result' = get_upcoming_birthdays(book, today)
    /\ call' = [op |-> "get_upcoming_birthdays", idx |-> 0, args |-> <<>>]
    /\ UNCHANGED <<book, today, pc>>

InitBirthdays ==
    /\ book \in BirthdayBooks
    /\ today \in TodayDates
    /\ pc = "prompt"
    /\ call = NoCall
    /\ result = ReturnNone

NextBirthdays == CallGetUpcomingBirthdays

SpecBirthdays == InitBirthdays /\ [][NextBirthdays]_vars

(***************************************************************************)
(* The claims about get_upcoming_birthdays, under SpecBirthdays.           *)
(***************************************************************************)
\* The birthday's month and day fall on the date dt.
FallsOn(birthday, dt) == birthday.month = dt.month /\ birthday.day = dt.day

\* The birthday next occurs, counting from now, within `days` days.
OccursWithin(birthday, now, days) ==
    \E j \in 0..days : FallsOn(birthday, AddDays(now, j))

\* The names of the records to congratulate, in the book's order.
ExpectedNames(b, now) ==
    LET due == SelectSeq(b, LAMBDA r : r.birthday # None /\ OccursWithin(r.birthday, now, 7))
    IN [i \in 1..Len(due) |-> due[i].name]

EntryNames(entries) == [i \in 1..Len(entries) |-> entries[i].name]

\* C4: on every book and every day get_upcoming_birthdays returns an entry for
\* exactly the records whose birthday next occurs in [today, today + 7 days],
\* in the book's insertion order.
C4_UpcomingExactlyWithinSevenDays ==
    call.op = "get_upcoming_birthdays" =>
        /\ result.kind = "return"
        /\ EntryNames(result.entries) = ExpectedNames(book, today)

\* C5: each entry's congratulation date is the occurrence itself from Monday to
\* Friday, two days later for a Saturday and one day later for a Sunday; it is
\* never a Saturday or Sunday and never before the occurrence.
C5_WeekendShiftedToMonday ==
    (call.op = "get_upcoming_birthdays" /\ result.kind = "return") =>
        \A k \in 1..Len(result.entries) :
            LET e == result.entries[k]
                birthday == book[Find(book, e.name)].birthday
                parsed == Strptime(e.congratulation_date)
            IN /\ parsed.kind = "return"
               /\ \E j \in 0..7 :
                     LET occurrence == AddDays(today, j)
                     IN /\ FallsOn(birthday, occurrence)
                        /\ Weekday(occurrence) \in 0..4 => parsed.date = occurrence
                        /\ Weekday(occurrence) = 5 => parsed.date = AddDays(occurrence, 2)
                        /\ Weekday(occurrence) = 6 => parsed.date = AddDays(occurrence, 1)
                        /\ DateLe(occurrence, parsed.date)
               /\ Weekday(parsed.date) \notin {5, 6}

\* The scenario of 15.06.1990 on Monday 2024-06-10: a Saturday, moved to 17.06.2024;
\* with it a Sunday birthday, 16.06.1991, moved to the same Monday.
C5_Witness ==
    /\ call.op = "get_upcoming_birthdays"
    /\ today = Date(2024, 6, 10)
    /\ result.entries =
          <<[name |-> Alice,
             congratulation_date |-> <<"1", "7", ".", "0", "6", ".", "2", "0", "2", "4">>],
            [name |-> Bob,
             congratulation_date |-> <<"1", "7", ".", "0", "6", ".", "2", "0", "2", "4">>]>>
    /\ book[1].birthday = Date(1990, 6, 15)
    /\ book[2].birthday = Date(1991, 6, 16)

\* C4 holds of the books that hold no birthday on 29 February.
C4_WithoutLeapDay ==
    (call.op = "get_upcoming_birthdays"
        /\ \A i \in DOMAIN book : ~FallsOn(book[i].birthday, Date(2000, 2, 29))) =>
        /\ result.kind = "return"
        /\ EntryNames(result.entries) = ExpectedNames(book, today)

(***************************************************************************)
(* The claims about the Record, under SpecRecord.                          *)
(***************************************************************************)
RecordMutators == {"add_phone", "remove_phone", "edit_phone", "add_birthday"}

\* A string of exactly ten ASCII decimal digits.
IsTenAsciiDigits(v) == Len(v) = 10 /\ \A i \in 1..Len(v) : v[i] \in AsciiDigits

AlreadySet == <<"Birthday is already set and cannot be changed.">>

\* C1: a record's phone list never holds the same number twice.
C1_PhonesUnique ==
    \A i \in DOMAIN book :
        \A j, k \in 1..Len(book[i].phones) :
            j # k => book[i].phones[j] # book[i].phones[k]

\* C2: once a record has a birthday, no call changes or clears it, and every
\* later add_birthday on it fails with the "already set" error.
C2_BirthdaySetOnce ==
    [][\A i \in DOMAIN book :
          book[i].birthday # None =>
              /\ i \in DOMAIN book'
              /\ book'[i].birthday = book[i].birthday
              /\ (call'.op = "add_birthday" /\ call'.idx = i) =>
                     result' = Raise("ValueError", AlreadySet)
              /\ (call'.op = "add-birthday" /\ Len(call'.args) = 2
                    /\ call'.args[1] = book[i].name) =>
                     result' = Return(<<"Error: ">> \o AlreadySet)]_vars

\* A second add_birthday, with another valid date, has failed on a record whose
\* birthday is still the first one.
C2_Witness ==
    /\ call.op = "add_birthday"
    /\ call.args = <<D_29_02_2000>>
    /\ result = Raise("ValueError", AlreadySet)
    /\ book[1].birthday = Date(1990, 6, 15)

\* C3: a mutator call of a Record that raises leaves the record's phone list
\* and birthday as they were.
C3_FailedMutatorChangesNothing ==
    [][(call'.op \in RecordMutators /\ result'.kind = "raise") => book' = book]_vars

\* edit_phone of a number the record holds to a malformed one has failed, on a
\* record with two phones and a birthday.
C3_Witness ==
    /\ call.op = "edit_phone"
    /\ call.args = <<PhoneB, PhoneDashed>>
    /\ result = Raise("ValueError", <<"Phone number must be 10 digits">>)
    /\ book[1].phones = <<PhoneA, PhoneB>>
    /\ book[1].birthday # None

\* C8: a Phone is constructed exactly from the strings of ten ASCII digits, so
\* every stored phone is one; every other string is refused with "Phone number
\* must be 10 digits".
C8_PhoneIsTenAsciiDigits ==
    /\ \A i \in DOMAIN book :
          \A j \in 1..Len(book[i].phones) : IsTenAsciiDigits(book[i].phones[j])
    /\ (call.op = "add_phone" /\ result.kind = "return") => IsTenAsciiDigits(call.args[1])
    /\ (call.op = "add_phone"
          /\ result = Raise("ValueError", <<"Phone number must be 10 digits">>)) =>
          ~IsTenAsciiDigits(call.args[1])

(***************************************************************************)
(* The claims about the handlers and the loop, under SpecMain.             *)
(***************************************************************************)
\* The line main() has just read; its command and arguments.
LastLine == call.args[1]

\* A message a handler returns for a failure.
IsFailureMessage(v) ==
    \/ v = <<"Contact not found.">>
    \/ Len(v) > 1 /\ v[1] \in {"Error: ", "Unexpected error: "}
    \/ v = <<"Error: Missing required arguments.">>

\* C6: add with a name and a valid phone: a new name is answered "Contact added."
\* and gets a record holding exactly that phone; a known name whose record lacks
\* the phone is answered "Contact updated." and gets the phone appended; the
\* other records stay as they were.
C6_AddCreatesOrAppends ==
    [][(/\ call'.op = "main"
        /\ Parsed[call'.args[1]].cmd = kw_add
        /\ Len(Parsed[call'.args[1]].args) >= 2
        /\ IsTenAsciiDigits(Parsed[call'.args[1]].args[2])) =>
          LET name == Parsed[call'.args[1]].args[1]
              phone == Parsed[call'.args[1]].args[2]
              known == \E i \in DOMAIN book : book[i].name = name
              at == CHOOSE i \in DOMAIN book : book[i].name = name
          IN /\ ~known =>
                   /\ result' = Return(<<"Contact added.">>)
                   /\ book' = Append(book, [name |-> name, phones |-> <<phone>>,
                                            birthday |-> None])
             /\ (known /\ ~InSeq(phone, book[at].phones)) =>
                   /\ result' = Return(<<"Contact updated.">>)
                   /\ book' = [book EXCEPT ![at].phones = Append(@, phone)]]_vars

\* The scenario of the two adds for Alice, with Bob's record between them.
C6_Witness ==
    /\ call.op = "main"
    /\ LastLine = ToLine(<<kw_add, Alice, PhoneB>>)
    /\ result = Return(<<"Contact updated.">>)
    /\ Len(book) = 2
    /\ book[1].name = Alice
    /\ book[1].phones = <<PhoneA, PhoneB>>
    /\ book[2].phones = <<PhoneA>>

\* C7: no handler raises out of the loop: what is printed is a returned value,
\* and the loop has ended exactly when the last line's verb is close or exit
\* in any case.
C7_LoopEndsOnlyOnCloseOrExit ==
    /\ pc \in {"prompt", "done"}
    /\ result.kind = "return"
    /\ call.op = "main" => (pc = "done" <=> LastLine \in QuitLines)

\* The ValueError of date.replace inside get_upcoming_birthdays came back as a
\* message and the loop is at its prompt.
C7_Witness ==
    /\ call.op = "main"
    /\ LastLine = ToLine(<<kw_birthdays>>)
    /\ result = Return(<<"Error: ", "day is out of range for month">>)
    /\ pc = "prompt"

\* C9: change with fewer than 3 arguments answers an argument error; with 3 or
\* more it answers "Contact not found." for an unknown name and otherwise what
\* edit_phone of the second and third argument gives.
C9_ChangeTakesThreeOrMore ==
    [][(call'.op = "main" /\ Parsed[call'.args[1]].cmd = kw_change) =>
          LET args == Parsed[call'.args[1]].args
              known == \E i \in DOMAIN book : book[i].name = args[1]
              at == CHOOSE i \in DOMAIN book : book[i].name = args[1]
              edited == edit_phone(book[at], args[2], args[3])
          IN IF Len(args) < 3
             THEN result' = Return(<<"Error: ",
                                     "Name, old phone, and new phone are required.">>)
             ELSE IF ~known
             THEN result' = Return(<<"Contact not found.">>) /\ book' = book
             ELSE /\ book' = [book EXCEPT ![at] = edited.rec]
                  /\ result' = IF edited.out.kind = "raise"
                               THEN Return(<<"Error: ">> \o edited.out.value)
                               ELSE edited.out]_vars

\* C10: a handler that answers an error message or "Contact not found." leaves
\* the book as it was.
C10_FailedCommandChangesNothing ==
    [][(call'.op = "main" /\ IsFailureMessage(result'.value)) => book' = book]_vars

====
